---- MODULE Spec2Model ----
(***************************************************************************)
(* Cloud inventory counters: EC2InstanceCounter, RDSInstanceCounter,       *)
(* EC2SecurityGroupCounter, AzureVMCounter, AzureSQLDBCounter and          *)
(* AzureNSGCounter.  Every counter wraps one provider SDK client and       *)
(* offers a count, an aggregated-tags and a status operation; each         *)
(* operation is one try/except around the provider calls it makes.         *)
(*                                                                         *)
(* The provider is the environment: `cloud` is what it holds, `failure`    *)
(* is how its next answers go wrong, `probe` is what the service-level     *)
(* status calls of EC2 and RDS answer.  A counter operation is one atomic  *)
(* action that reads the provider and leaves its return value, the         *)
(* provider calls it issued and the lines it printed in the state.         *)
(***************************************************************************)
EXTENDS Integers, Sequences, FiniteSets, TLC

\* ------------------------------------------------------------------ bounds
\* resources the provider holds at most
MaxRes == 2
\* tag entries the provider holds at most, over all its resources
MaxTags == 2
\* EC2 reservations the provider holds at most
MaxReservations == 2

\* ------------------------------------------------------------------ data
Components == {"EC2", "RDS", "SG", "VM", "SQL", "NSG"}
AwsComponents == {"EC2", "RDS", "SG"}
AzureComponents == {"VM", "SQL", "NSG"}

\* The tags of the model: Env is prod or dev, Team is x.
TagPairs == {<<"Env", "prod">>, <<"Env", "dev">>, <<"Team", "x">>}
TagKeys == {p[1] : p \in TagPairs}

\* An AWS tag entry is a mapping with the fields Key and Value; a malformed
\* entry lacks one of them.
WellFormedTags == {[Key |-> p[1], Value |-> p[2]] : p \in TagPairs}
MalformedTags == {[Key |-> "Env"], [Value |-> "prod"]}
AwsTags == WellFormedTags \cup MalformedTags

\* How the provider's answers go wrong: not at all; the call raises; the
\* response lacks its collection field (AWS); the last item of the collection
\* lacks the field the loop reads (EC2: Instances, RDS: DBInstanceArn); the
\* pager raises once it has yielded every item (Azure).  A malformed tag entry
\* and a failing RDS tag lookup are part of `cloud`.
FailureModes == {"none", "call", "nofield", "noitem", "pager"}

VARIABLES
    component,    \* the counter under test
    cloud,        \* the provider's resources, in the order it returns them
    probe,        \* what the EC2 / RDS service-level status call listed
    failure,      \* how the provider's answers go wrong
    lastOp,       \* what ran last: "idle", "count", "tags", "status", "main"
    result,       \* what it returned
    calls,        \* the provider calls it issued, in order
    printed,      \* the lines it printed
    self,         \* the attributes of the counter object
    twice         \* whether the last two invocations both ran aggregated
                  \* tags, against the provider as it is now

vars == <<component, cloud, probe, failure, lastOp, result, calls, printed,
          self, twice>>

\* ------------------------------------------------------------------ values
\* Python values an operation returns: None, an int, a dict, a str.
None == [kind |-> "None"]
IntVal(n) == [kind |-> "int", value |-> n]
DictVal(d) == [kind |-> "dict", value |-> d]
StrVal(s) == [kind |-> "str", value |-> s]

\* The line every except clause prints.
Diagnostic == [text |-> "An error occurred"]

\* An exception raised by a provider call.
Raise == [exception |-> "Exception"]
IsRaise(x) == "exception" \in DOMAIN x

\* One provider call in the log of an invocation.
Call(api, arg, raised) == [api |-> api, arg |-> arg, raised |-> raised]

\* ------------------------------------------------------------------ provider
\* cloud is a sequence of groups of resources.  For EC2 a group is a
\* reservation; every other provider keeps its resources in one group.
\* A resource is [id |-> n], with a field Tags (AWS: a sequence of tag
\* entries) or tags (Azure: the items of a dict, keys distinct) when it
\* carries tags, and with a field Fault when the RDS tag lookup for it raises.
RECURSIVE Flat(_)
Flat(groups) ==
    IF groups = <<>> THEN <<>> ELSE Head(groups) \o Flat(Tail(groups))

Resources == Flat(cloud)

RECURSIVE TagTotal(_)
TagTotal(rs) ==
    IF rs = <<>> THEN 0
    ELSE LET r == Head(rs)
             n == IF "Tags" \in DOMAIN r THEN Len(r.Tags)
                  ELSE IF "tags" \in DOMAIN r THEN Len(r.tags) ELSE 0
         IN  n + TagTotal(Tail(rs))

\* boto3 ec2.describe_instances()
describe_instances ==
    IF failure = "call" THEN Raise
    ELSE IF failure = "nofield" THEN [ResponseMetadata |-> "ok"]
    ELSE [ResponseMetadata |-> "ok",
          Reservations |-> [i \in 1..Len(cloud) |->
              IF failure = "noitem" /\ i = Len(cloud)
              THEN [ReservationId |-> i]
              ELSE [ReservationId |-> i, Instances |-> cloud[i]]]]

\* boto3 ec2.describe_account_attributes(AttributeNames=['maxInstances'])
describe_account_attributes(answer) ==
    IF failure = "call" THEN Raise
    ELSE IF failure = "nofield" THEN [ResponseMetadata |-> "ok"]
    ELSE [ResponseMetadata |-> "ok", AccountAttributes |-> answer]

\* boto3 ec2.describe_security_groups()
describe_security_groups ==
    IF failure = "call" THEN Raise
    ELSE IF failure = "nofield" THEN [ResponseMetadata |-> "ok"]
    ELSE [ResponseMetadata |-> "ok", SecurityGroups |-> Resources]

\* ------------------------------------------------------------------ python
\* The body of a try block: it ran to its return statement with a value, or
\* it raised; either way it issued the provider calls in `calls`.
Ran(value, log) == [raised |-> FALSE, value |-> value, calls |-> log]
Threw(log) == [raised |-> TRUE, calls |-> log]

\* Mutant: the except clause returns None without printing.
TryExceptSilent(body) ==
    IF body.raised
    THEN [ret |-> None, calls |-> body.calls, out |-> <<>>]
    ELSE [ret |-> body.value, calls |-> body.calls, out |-> <<>>]

\* try: <body> except Exception as e: print(f"An error occurred: {e}"); return None
TryExcept(body) ==
    IF body.raised
    THEN [ret |-> None, calls |-> body.calls, out |-> <<Diagnostic>>]
    ELSE [ret |-> body.value, calls |-> body.calls, out |-> <<>>]

\* Mutant: the value is put in front of the list, aggregated_tags[key].insert(0, value).
DefaultDictPrepend(agg, key, value) ==
    IF key \in DOMAIN agg
    THEN [agg EXCEPT ![key] = <<value>> \o @]
    ELSE agg @@ (key :> <<value>>)

\* Mutant: a plain dict assignment, aggregated_tags[key] = [value]: a later
\* value of the key replaces the earlier ones.
DictAssign(agg, key, value) ==
    IF key \in DOMAIN agg
    THEN [agg EXCEPT ![key] = <<value>>]
    ELSE agg @@ (key :> <<value>>)

\* aggregated_tags[key].append(value) on a defaultdict(list)
DefaultDictAppend(agg, key, value) ==
    IF key \in DOMAIN agg
    THEN [agg EXCEPT ![key] = Append(@, value)]
    ELSE agg @@ (key :> <<value>>)

\* aggregated_tags[key] on a defaultdict(list): a missing key is created empty
DefaultDictGet(agg, key) ==
    IF key \in DOMAIN agg THEN agg ELSE agg @@ (key :> <<>>)

\* for tag in tags: aggregated_tags[tag['Key']].append(tag['Value'])
RECURSIVE AppendTags(_, _)
AppendTags(agg, tags) ==
    IF tags = <<>> THEN [raised |-> FALSE, agg |-> agg]
    ELSE LET tag == Head(tags) IN
         IF "Key" \notin DOMAIN tag THEN [raised |-> TRUE, agg |-> agg]
         ELSE IF "Value" \notin DOMAIN tag
              THEN [raised |-> TRUE, agg |-> DefaultDictGet(agg, tag.Key)]
         ELSE AppendTags(DefaultDictAppend(agg, tag.Key, tag.Value), Tail(tags))

\* for item in items: if 'Tags' in item: <AppendTags>
RECURSIVE AggregateItems(_, _)
AggregateItems(agg, items) ==
    IF items = <<>> THEN [raised |-> FALSE, agg |-> agg]
    ELSE LET item == Head(items) IN
         IF "Tags" \in DOMAIN item
         THEN LET a == AppendTags(agg, item.Tags) IN
              IF a.raised THEN a ELSE AggregateItems(a.agg, Tail(items))
         ELSE AggregateItems(agg, Tail(items))

\* ------------------------------------------------------------------ EC2
\* Mutant: the reservations are counted, len(response['Reservations']).
SumReservations(reservations) == [raised |-> FALSE, n |-> Len(reservations)]

\* sum(len(reservation['Instances']) for reservation in reservations)
RECURSIVE SumInstances(_)
SumInstances(reservations) ==
    IF reservations = <<>> THEN [raised |-> FALSE, n |-> 0]
    ELSE IF "Instances" \notin DOMAIN Head(reservations)
         THEN [raised |-> TRUE, n |-> 0]
    ELSE LET rest == SumInstances(Tail(reservations)) IN
         [raised |-> rest.raised,
          n |-> Len(Head(reservations).Instances) + rest.n]

\* for reservation in reservations: for instance in reservation['Instances']: ...
RECURSIVE AggregateReservations(_, _)
AggregateReservations(agg, reservations) ==
    IF reservations = <<>> THEN [raised |-> FALSE, agg |-> agg]
    ELSE IF "Instances" \notin DOMAIN Head(reservations)
         THEN [raised |-> TRUE, agg |-> agg]
    ELSE LET a == AggregateItems(agg, Head(reservations).Instances) IN
         IF a.raised THEN a ELSE AggregateReservations(a.agg, Tail(reservations))

EC2_get_count ==
    LET response == describe_instances
        log == <<Call("describe_instances", <<>>, IsRaise(response))>>
    IN  TryExcept(
            IF IsRaise(response) THEN Threw(log)
            ELSE IF "Reservations" \notin DOMAIN response THEN Threw(log)
            ELSE LET total == SumInstances(response.Reservations) IN
                 IF total.raised THEN Threw(log) ELSE Ran(IntVal(total.n), log))

EC2_get_aggregated_tags ==
    LET response == describe_instances
        log == <<Call("describe_instances", <<>>, IsRaise(response))>>
    IN  TryExcept(
            IF IsRaise(response) THEN Threw(log)
            ELSE IF "Reservations" \notin DOMAIN response THEN Threw(log)
            ELSE LET a == AggregateReservations(<<>>, response.Reservations) IN
                 IF a.raised THEN Threw(log) ELSE Ran(DictVal(a.agg), log))

\* Mutant: the status is read off the instance listing, as the count is.
EC2_get_status_of_instances(answer) ==
    LET response == describe_instances
        log == <<Call("describe_instances", <<>>, IsRaise(response))>>
    IN  TryExcept(
            IF IsRaise(response) THEN Threw(log)
            ELSE IF "Reservations" \notin DOMAIN response THEN Threw(log)
            ELSE IF response.Reservations # <<>>
                 THEN Ran(StrVal("EC2 Service is operational."), log)
                 ELSE Ran(None, log))

EC2_get_status(answer) ==
    LET response == describe_account_attributes(answer)
        log == <<Call("describe_account_attributes", <<>>, IsRaise(response))>>
    IN  TryExcept(
            IF IsRaise(response) THEN Threw(log)
            ELSE IF "AccountAttributes" \notin DOMAIN response THEN Threw(log)
            ELSE IF response.AccountAttributes # <<>>
                 THEN Ran(StrVal("EC2 Service is operational."), log)
                 ELSE Ran(None, log))

\* ------------------------------------------------------------------ SG
\* Mutant: zero is taken for "nothing to report", return count or None.
SG_get_security_group_count_or_none ==
    LET response == describe_security_groups
        log == <<Call("describe_security_groups", <<>>, IsRaise(response))>>
    IN  TryExcept(
            IF IsRaise(response) THEN Threw(log)
            ELSE IF "SecurityGroups" \notin DOMAIN response THEN Threw(log)
            ELSE IF Len(response.SecurityGroups) = 0 THEN Ran(None, log)
            ELSE Ran(IntVal(Len(response.SecurityGroups)), log))

SG_get_security_group_count ==
    LET response == describe_security_groups
        log == <<Call("describe_security_groups", <<>>, IsRaise(response))>>
    IN  TryExcept(
            IF IsRaise(response) THEN Threw(log)
            ELSE IF "SecurityGroups" \notin DOMAIN response THEN Threw(log)
            ELSE Ran(IntVal(Len(response.SecurityGroups)), log))

SG_get_aggregated_sg_tags ==
    LET response == describe_security_groups
        log == <<Call("describe_security_groups", <<>>, IsRaise(response))>>
    IN  TryExcept(
            IF IsRaise(response) THEN Threw(log)
            ELSE IF "SecurityGroups" \notin DOMAIN response THEN Threw(log)
            ELSE LET a == AggregateItems(<<>>, response.SecurityGroups) IN
                 IF a.raised THEN Threw(log) ELSE Ran(DictVal(a.agg), log))

SG_get_sg_status ==
    LET response == describe_security_groups
        log == <<Call("describe_security_groups", <<>>, IsRaise(response))>>
    IN  TryExcept(
            IF IsRaise(response) THEN Threw(log)
            ELSE IF "SecurityGroups" \notin DOMAIN response THEN Threw(log)
            ELSE IF response.SecurityGroups # <<>>
                 THEN Ran(StrVal("Security Groups Service is operational."), log)
                 ELSE Ran(None, log))

\* ------------------------------------------------------------------ RDS
\* boto3 rds.describe_db_instances()
describe_db_instances ==
    IF failure = "call" THEN Raise
    ELSE IF failure = "nofield" THEN [ResponseMetadata |-> "ok"]
    ELSE [ResponseMetadata |-> "ok",
          DBInstances |-> [i \in 1..Len(Resources) |->
              IF failure = "noitem" /\ i = Len(Resources)
              THEN [DBInstanceIdentifier |-> Resources[i].id]
              ELSE [DBInstanceIdentifier |-> Resources[i].id,
                    DBInstanceArn |-> Resources[i].id]]]

\* boto3 rds.list_tags_for_resource(ResourceName=arn)
list_tags_for_resource(arn) ==
    LET r == CHOOSE x \in {Resources[i] : i \in 1..Len(Resources)} : x.id = arn IN
    IF failure = "call" \/ "Fault" \in DOMAIN r THEN Raise
    ELSE IF "Tags" \in DOMAIN r THEN [ResponseMetadata |-> "ok", TagList |-> r.Tags]
    ELSE [ResponseMetadata |-> "ok"]

\* boto3 rds.describe_orderable_db_instance_options()
describe_orderable_db_instance_options(answer) ==
    IF failure = "call" THEN Raise
    ELSE IF failure = "nofield" THEN [ResponseMetadata |-> "ok"]
    ELSE [ResponseMetadata |-> "ok", OrderableDBInstanceOptions |-> answer]

\* Mutant: the return statement sits inside the loop, so the mapping is
\* returned after the first instance.
AggregateDBInstancesReturnInLoop(agg, instances, log) ==
    IF instances = <<>> THEN [raised |-> FALSE, agg |-> agg, calls |-> log]
    ELSE LET instance == Head(instances) IN
         IF "DBInstanceArn" \notin DOMAIN instance
         THEN [raised |-> TRUE, agg |-> agg, calls |-> log]
         ELSE LET arn == instance.DBInstanceArn
                  tags_response == list_tags_for_resource(arn)
                  log1 == Append(log, Call("list_tags_for_resource", <<arn>>,
                                           IsRaise(tags_response)))
              IN  IF IsRaise(tags_response)
                  THEN [raised |-> TRUE, agg |-> agg, calls |-> log1]
                  ELSE IF "TagList" \in DOMAIN tags_response
                  THEN LET a == AppendTags(agg, tags_response.TagList) IN
                       [raised |-> a.raised, agg |-> a.agg, calls |-> log1]
                  ELSE [raised |-> FALSE, agg |-> agg, calls |-> log1]

\* Mutant: a tag lookup that raises is swallowed inside the loop and the
\* instance skipped, so the tags gathered from the others are returned.
RECURSIVE AggregateDBInstancesSkipFailed(_, _, _)
AggregateDBInstancesSkipFailed(agg, instances, log) ==
    IF instances = <<>> THEN [raised |-> FALSE, agg |-> agg, calls |-> log]
    ELSE LET instance == Head(instances) IN
         IF "DBInstanceArn" \notin DOMAIN instance
         THEN [raised |-> TRUE, agg |-> agg, calls |-> log]
         ELSE LET arn == instance.DBInstanceArn
                  tags_response == list_tags_for_resource(arn)
                  log1 == Append(log, Call("list_tags_for_resource", <<arn>>,
                                           IsRaise(tags_response)))
              IN  IF IsRaise(tags_response)
                  THEN AggregateDBInstancesSkipFailed(agg, Tail(instances), log1)
                  ELSE IF "TagList" \in DOMAIN tags_response
                  THEN LET a == AppendTags(agg, tags_response.TagList) IN
                       IF a.raised
                       THEN [raised |-> TRUE, agg |-> a.agg, calls |-> log1]
                       ELSE AggregateDBInstancesSkipFailed(a.agg, Tail(instances), log1)
                  ELSE AggregateDBInstancesSkipFailed(agg, Tail(instances), log1)

\* for instance in response['DBInstances']:
\*     tags_response = list_tags_for_resource(ResourceName=instance['DBInstanceArn'])
\*     if 'TagList' in tags_response: <AppendTags>
RECURSIVE AggregateDBInstances(_, _, _)
AggregateDBInstances(agg, instances, log) ==
    IF instances = <<>> THEN [raised |-> FALSE, agg |-> agg, calls |-> log]
    ELSE LET instance == Head(instances) IN
         IF "DBInstanceArn" \notin DOMAIN instance
         THEN [raised |-> TRUE, agg |-> agg, calls |-> log]
         ELSE LET arn == instance.DBInstanceArn
                  tags_response == list_tags_for_resource(arn)
                  log1 == Append(log, Call("list_tags_for_resource", <<arn>>,
                                           IsRaise(tags_response)))
              IN  IF IsRaise(tags_response)
                  THEN [raised |-> TRUE, agg |-> agg, calls |-> log1]
                  ELSE IF "TagList" \in DOMAIN tags_response
                  THEN LET a == AppendTags(agg, tags_response.TagList) IN
                       IF a.raised
                       THEN [raised |-> TRUE, agg |-> a.agg, calls |-> log1]
                       ELSE AggregateDBInstances(a.agg, Tail(instances), log1)
                  ELSE AggregateDBInstances(agg, Tail(instances), log1)

\* Mutant: a describe call that raises is issued a second time.
RDS_get_rds_instance_count_retry ==
    LET first == describe_db_instances
        response == IF IsRaise(first) THEN describe_db_instances ELSE first
        log == IF IsRaise(first)
               THEN <<Call("describe_db_instances", <<>>, TRUE),
                      Call("describe_db_instances", <<>>, IsRaise(response))>>
               ELSE <<Call("describe_db_instances", <<>>, FALSE)>>
    IN  TryExcept(
            IF IsRaise(response) THEN Threw(log)
            ELSE IF "DBInstances" \notin DOMAIN response THEN Threw(log)
            ELSE Ran(IntVal(Len(response.DBInstances)), log))

RDS_get_rds_instance_count ==
    LET response == describe_db_instances
        log == <<Call("describe_db_instances", <<>>, IsRaise(response))>>
    IN  TryExcept(
            IF IsRaise(response) THEN Threw(log)
            ELSE IF "DBInstances" \notin DOMAIN response THEN Threw(log)
            ELSE Ran(IntVal(Len(response.DBInstances)), log))

RDS_get_aggregated_rds_tags ==
    LET response == describe_db_instances
        log == <<Call("describe_db_instances", <<>>, IsRaise(response))>>
    IN  TryExcept(
            IF IsRaise(response) THEN Threw(log)
            ELSE IF "DBInstances" \notin DOMAIN response THEN Threw(log)
            ELSE LET a == AggregateDBInstances(<<>>, response.DBInstances, log) IN
                 IF a.raised THEN Threw(a.calls) ELSE Ran(DictVal(a.agg), a.calls))

RDS_get_rds_status(answer) ==
    LET response == describe_orderable_db_instance_options(answer)
        log == <<Call("describe_orderable_db_instance_options", <<>>,
                      IsRaise(response))>>
    IN  TryExcept(
            IF IsRaise(response) THEN Threw(log)
            ELSE IF "OrderableDBInstanceOptions" \notin DOMAIN response
                 THEN Threw(log)
            ELSE IF response.OrderableDBInstanceOptions # <<>>
                 THEN Ran(StrVal("RDS Service is operational."), log)
                 ELSE Ran(None, log))

\* ------------------------------------------------------------------ Azure
\* <client>.<collection>.list_all() / .list(): the call raises, or it returns
\* a pager that yields `items` and then stops or raises.
list_all ==
    IF failure = "call" THEN Raise
    ELSE [items |-> Resources, raises |-> failure = "pager"]

\* for key, value in tags.items(): aggregated_tags[key].append(value)
RECURSIVE AppendItems(_, _)
AppendItems(agg, items) ==
    IF items = <<>> THEN agg
    ELSE AppendItems(DefaultDictAppend(agg, Head(items)[1], Head(items)[2]),
                     Tail(items))

\* for res in pager: if res.tags: <AppendItems>
\* (tags is None when the resource has no field tags; None and {} are falsy)
RECURSIVE AggregatePager(_, _)
AggregatePager(agg, pager) ==
    IF pager.items = <<>> THEN [raised |-> pager.raises, agg |-> agg]
    ELSE LET res == Head(pager.items)
             rest == [pager EXCEPT !.items = Tail(pager.items)]
         IN  IF "tags" \in DOMAIN res /\ res.tags # <<>>
             THEN AggregatePager(AppendItems(agg, res.tags), rest)
             ELSE AggregatePager(agg, rest)

\* sum(1 for _ in pager)
RECURSIVE SumPager(_)
SumPager(pager) ==
    IF pager.items = <<>> THEN [raised |-> pager.raises, n |-> 0]
    ELSE LET rest == SumPager([pager EXCEPT !.items = Tail(pager.items)]) IN
         [raised |-> rest.raised, n |-> 1 + rest.n]

\* any(True for _ in pager): stops at the first item the pager yields
AnyPager(pager) ==
    IF pager.items # <<>> THEN [raised |-> FALSE, any |-> TRUE]
    ELSE [raised |-> pager.raises, any |-> FALSE]

AzureCount(api) ==
    LET pager == list_all
        log == <<Call(api, <<>>, IsRaise(pager))>>
    IN  TryExcept(
            IF IsRaise(pager) THEN Threw(log)
            ELSE LET total == SumPager(pager) IN
                 IF total.raised THEN Threw(log) ELSE Ran(IntVal(total.n), log))

AzureTags(api) ==
    LET pager == list_all
        log == <<Call(api, <<>>, IsRaise(pager))>>
    IN  TryExcept(
            IF IsRaise(pager) THEN Threw(log)
            ELSE LET a == AggregatePager(<<>>, pager) IN
                 IF a.raised THEN Threw(log) ELSE Ran(DictVal(a.agg), log))

AzureStatus(api, message) ==
    LET pager == list_all
        log == <<Call(api, <<>>, IsRaise(pager))>>
    IN  TryExcept(
            IF IsRaise(pager) THEN Threw(log)
            ELSE LET a == AnyPager(pager) IN
                 IF a.raised THEN Threw(log)
                 ELSE IF a.any THEN Ran(StrVal(message), log) ELSE Ran(None, log))

VM_get_vm_count == AzureCount("virtual_machines.list_all")
VM_get_aggregated_vm_tags == AzureTags("virtual_machines.list_all")
VM_get_vm_status ==
    AzureStatus("virtual_machines.list_all", "Azure VM Service is operational.")

SQL_get_count == AzureCount("databases.list")
SQL_get_aggregated_tags == AzureTags("databases.list")
SQL_get_status ==
    AzureStatus("databases.list", "Azure SQL Database Service is operational.")

NSG_get_nsg_count == AzureCount("network_security_groups.list_all")
NSG_get_aggregated_nsg_tags == AzureTags("network_security_groups.list_all")
NSG_get_nsg_status ==
    AzureStatus("network_security_groups.list_all",
                "Azure NSG Service is operational.")

\* ------------------------------------------------------------------ environment
NoResult == None

\* The provider holding nothing.
Empty(c) == IF c = "EC2" THEN <<>> ELSE << <<>> >>

\* While the call raises or the response lacks its collection, nothing the
\* provider holds reaches the counter: the model keeps it empty then.
Answering == failure \notin {"call", "nofield"}

\* __init__: the attributes a counter of the class c is constructed with.
Constructed(c) ==
    CASE c = "EC2" -> [ec2_client |-> "ec2"]
      [] c = "RDS" -> [rds_client |-> "rds"]
      [] c = "SG"  -> [ec2_client |-> "ec2"]
      [] c = "VM"  -> [subscription_id |-> "subscription",
                       compute_client |-> "compute"]
      [] c = "SQL" -> [subscription_id |-> "subscription", sql_client |-> "sql"]
      [] c = "NSG" -> [subscription_id |-> "subscription",
                       network_client |-> "network"]

Init ==
    /\ component \in Components
    /\ self = Constructed(component)
    /\ twice = FALSE
    /\ cloud = Empty(component)
    /\ probe = <<>>
    /\ failure = "none"
    /\ lastOp = "idle"
    /\ result = NoResult
    /\ calls = <<>>
    /\ printed = <<>>

\* A change of the provider: what the last invocation left behind is gone.
Forget ==
    /\ lastOp' = "idle"
    /\ probe' = <<>>
    /\ result' = NoResult
    /\ calls' = <<>>
    /\ printed' = <<>>
    /\ twice' = FALSE
    /\ UNCHANGED <<component, self>>

LastGroup == cloud[Len(cloud)]
LastResource == LastGroup[Len(LastGroup)]
WithLastResource(r) ==
    [cloud EXCEPT ![Len(cloud)] = [@ EXCEPT ![Len(@)] = r]]

\* The provider opens a new, empty EC2 reservation.
AddReservation ==
    /\ component = "EC2"
    /\ Answering
    /\ Len(cloud) < MaxReservations
    /\ cloud' = Append(cloud, <<>>)
    /\ UNCHANGED failure
    /\ Forget

\* The provider gains a resource: without tags, with an empty tag collection,
\* or (RDS) one whose tag lookup raises.
AddResource ==
    /\ Answering
    /\ Len(cloud) > 0
    /\ Len(Resources) < MaxRes
    /\ \E r \in {[id |-> Len(Resources) + 1]}
             \cup (IF component \in AwsComponents
                   THEN {[id |-> Len(Resources) + 1, Tags |-> <<>>]}
                   ELSE {[id |-> Len(Resources) + 1, tags |-> <<>>]})
             \cup (IF component = "RDS"
                   THEN {[id |-> Len(Resources) + 1, Fault |-> TRUE]}
                   ELSE {}) :
          cloud' = [cloud EXCEPT ![Len(cloud)] = Append(@, r)]
    /\ UNCHANGED failure
    /\ Forget

\* The last AWS resource gains a tag entry.
AddTag ==
    /\ component \in AwsComponents
    /\ Len(cloud) > 0 /\ Len(LastGroup) > 0
    /\ "Fault" \notin DOMAIN LastResource
    /\ TagTotal(Resources) < MaxTags
    /\ \E tag \in AwsTags :
          cloud' = WithLastResource(
              IF "Tags" \in DOMAIN LastResource
              THEN [LastResource EXCEPT !.Tags = Append(@, tag)]
              ELSE [id |-> LastResource.id, Tags |-> <<tag>>])
    /\ UNCHANGED failure
    /\ Forget

\* The last Azure resource gains a tag under a key it does not carry yet.
SetTag ==
    /\ component \in AzureComponents
    /\ Len(LastGroup) > 0
    /\ TagTotal(Resources) < MaxTags
    /\ LET old == IF "tags" \in DOMAIN LastResource THEN LastResource.tags ELSE <<>>
       IN  \E pair \in {p \in TagPairs : \A i \in 1..Len(old) : old[i][1] # p[1]} :
              cloud' = WithLastResource(
                  [id |-> LastResource.id, tags |-> Append(old, pair)])
    /\ UNCHANGED failure
    /\ Forget

\* The failures each provider can show.
CanFail(c, f) ==
    \/ f \in {"none", "call"}
    \/ f = "nofield" /\ c \in AwsComponents
    \/ f = "noitem" /\ c \in {"EC2", "RDS"}
    \/ f = "pager" /\ c \in AzureComponents

SetFailure ==
    /\ \E f \in FailureModes \ {failure} :
          /\ CanFail(component, f)
          /\ f = "noitem" =>
                IF component = "EC2" THEN Len(cloud) > 0 ELSE Len(Resources) > 0
          /\ failure' = f
          /\ cloud' = IF f \in {"call", "nofield"} THEN Empty(component) ELSE cloud
    /\ Forget

\* What a service-level status call may list: nothing, or one entry.
Probes == {<<>>, <<[Name |-> "option"]>>}

\* ------------------------------------------------------------------ invocations
\* The counter c runs op; outcome is what the method leaves behind: no method
\* writes an attribute of the counter.  `twice` is history the model keeps, a
\* change of the provider ends it (lastOp is "idle" then).  The
\* service-level status calls of EC2 and RDS answer with `probe`, which the
\* provider picks when the call is made.
InvokeAccumulating(c, op, outcome) ==
    LET accumulates == op = "tags" /\ outcome.ret.kind = "dict"
        kept == IF "aggregated_tags" \in DOMAIN self
                THEN self.aggregated_tags ELSE <<>>
        fresh == outcome.ret.value
        merged == [key \in DOMAIN kept \cup DOMAIN fresh |->
                      (IF key \in DOMAIN kept THEN kept[key] ELSE <<>>)
                      \o (IF key \in DOMAIN fresh THEN fresh[key] ELSE <<>>)]
    IN  /\ component = c
        /\ twice' = (op = "tags" /\ lastOp = "tags")
        /\ probe' = <<>>
        /\ lastOp' = op
        /\ result' = (IF accumulates THEN DictVal(merged) ELSE outcome.ret)
        /\ self' = (IF accumulates
                    THEN [aggregated_tags |-> merged] @@ self ELSE self)
        /\ calls' = outcome.calls
        /\ printed' = outcome.out
        /\ UNCHANGED <<component, cloud, failure>>

Invoke(c, op, outcome) ==
    /\ component = c
    /\ twice' = (op = "tags" /\ lastOp = "tags")
    /\ probe' = <<>>
    /\ lastOp' = op
    /\ result' = outcome.ret
    /\ calls' = outcome.calls
    /\ printed' = outcome.out
    /\ UNCHANGED <<component, cloud, failure, self>>

\* A status operation that asks the service-level call, which answers `answer`.
InvokeProbe(c, answer, outcome) ==
    /\ component = c
    /\ twice' = FALSE
    /\ probe' = (IF Answering THEN answer ELSE <<>>)
    /\ lastOp' = "status"
    /\ result' = outcome.ret
    /\ calls' = outcome.calls
    /\ printed' = outcome.out
    /\ UNCHANGED <<component, cloud, failure, self>>

EC2GetCount == Invoke("EC2", "count", EC2_get_count)
EC2GetAggregatedTags == Invoke("EC2", "tags", EC2_get_aggregated_tags)
EC2GetStatus ==
    \E answer \in Probes : InvokeProbe("EC2", answer, EC2_get_status(answer))
RDSGetCount == Invoke("RDS", "count", RDS_get_rds_instance_count)
RDSGetAggregatedTags == Invoke("RDS", "tags", RDS_get_aggregated_rds_tags)
RDSGetStatus ==
    \E answer \in Probes : InvokeProbe("RDS", answer, RDS_get_rds_status(answer))
SGGetCount == Invoke("SG", "count", SG_get_security_group_count)
SGGetAggregatedTags == Invoke("SG", "tags", SG_get_aggregated_sg_tags)
SGGetStatus == Invoke("SG", "status", SG_get_sg_status)
VMGetCount == Invoke("VM", "count", VM_get_vm_count)
VMGetAggregatedTags == Invoke("VM", "tags", VM_get_aggregated_vm_tags)
VMGetStatus == Invoke("VM", "status", VM_get_vm_status)
SQLGetCount == Invoke("SQL", "count", SQL_get_count)
SQLGetAggregatedTags == Invoke("SQL", "tags", SQL_get_aggregated_tags)
SQLGetStatus == Invoke("SQL", "status", SQL_get_status)
NSGGetCount == Invoke("NSG", "count", NSG_get_nsg_count)
NSGGetAggregatedTags == Invoke("NSG", "tags", NSG_get_aggregated_nsg_tags)
NSGGetStatus == Invoke("NSG", "status", NSG_get_nsg_status)

\* ------------------------------------------------------------------ entry points
\* The methods each counter class defines.
Methods(c) ==
    CASE c = "EC2" -> {"get_count", "get_aggregated_tags", "get_status"}
      [] c = "RDS" -> {"get_rds_instance_count", "get_aggregated_rds_tags",
                       "get_rds_status"}
      [] c = "SG"  -> {"get_security_group_count", "get_aggregated_sg_tags",
                       "get_sg_status"}
      [] c = "VM"  -> {"get_vm_count", "get_aggregated_vm_tags", "get_vm_status"}
      [] c = "SQL" -> {"get_count", "get_aggregated_tags", "get_status"}
      [] c = "NSG" -> {"get_nsg_count", "get_aggregated_nsg_tags", "get_nsg_status"}

\* counter.<name>() for a name the class defines.
CallMethod(c, name, answer) ==
    CASE c = "EC2" /\ name = "get_count" -> EC2_get_count
      [] c = "EC2" /\ name = "get_aggregated_tags" -> EC2_get_aggregated_tags
      [] c = "EC2" /\ name = "get_status" -> EC2_get_status(answer)
      [] c = "RDS" /\ name = "get_rds_instance_count" -> RDS_get_rds_instance_count
      [] c = "RDS" /\ name = "get_aggregated_rds_tags" -> RDS_get_aggregated_rds_tags
      [] c = "RDS" /\ name = "get_rds_status" -> RDS_get_rds_status(answer)
      [] c = "SG" /\ name = "get_security_group_count" -> SG_get_security_group_count
      [] c = "SG" /\ name = "get_aggregated_sg_tags" -> SG_get_aggregated_sg_tags
      [] c = "SG" /\ name = "get_sg_status" -> SG_get_sg_status
      [] c = "VM" /\ name = "get_vm_count" -> VM_get_vm_count
      [] c = "VM" /\ name = "get_aggregated_vm_tags" -> VM_get_aggregated_vm_tags
      [] c = "VM" /\ name = "get_vm_status" -> VM_get_vm_status
      [] c = "SQL" /\ name = "get_count" -> SQL_get_count
      [] c = "SQL" /\ name = "get_aggregated_tags" -> SQL_get_aggregated_tags
      [] c = "SQL" /\ name = "get_status" -> SQL_get_status
      [] c = "NSG" /\ name = "get_nsg_count" -> NSG_get_nsg_count
      [] c = "NSG" /\ name = "get_aggregated_nsg_tags" -> NSG_get_aggregated_nsg_tags
      [] c = "NSG" /\ name = "get_nsg_status" -> NSG_get_nsg_status

\* The method names the usage example of the module docstring invokes.
UsageExample(c) ==
    CASE c = "EC2" -> {"get_instance_count", "get_aggregated_ec2_tags"}
      [] c = "RDS" -> {"get_rds_instance_count", "get_aggregated_rds_tags"}
      [] c = "SG"  -> {"get_security_group_count", "get_aggregated_sg_tags"}
      [] OTHER -> {}

\* One statement of a __main__ block: call the method, then print what it
\* returned under `label`, always or only when it is not None.
Stmt(method, label, always) == [method |-> method, label |-> label, always |-> always]

\* The __main__ block of each module.
MainBlock(c) ==
    CASE c = "EC2" -> <<Stmt("get_instance_count", "Total EC2 Instances", FALSE),
                        Stmt("get_aggregated_ec2_tags", "tags", FALSE),
                        Stmt("get_ec2_status", "status", FALSE)>>
      [] c = "RDS" -> <<Stmt("get_rds_instance_count", "Total RDS Instances", FALSE),
                        Stmt("get_aggregated_rds_tags", "tags", FALSE),
                        Stmt("get_rds_status", "status", FALSE)>>
      [] c = "SG"  -> <<Stmt("get_security_group_count", "Total Security Groups", FALSE),
                        Stmt("get_aggregated_sg_tags", "tags", FALSE),
                        Stmt("get_sg_status", "status", FALSE)>>
      [] c = "VM"  -> <<Stmt("get_vm_status", "status", TRUE)>>
      [] c = "SQL" -> <<Stmt("get_sql_db_status", "status", TRUE)>>
      [] c = "NSG" -> <<Stmt("get_nsg_status", "status", TRUE)>>

\* How the interpreter ends: normally, or on an exception nothing handles.
Unhandled(error) == [kind |-> "unhandled", value |-> error]

\* The statements of a __main__ block, one after the other: a name the class
\* does not define raises AttributeError, which nothing handles.
RECURSIVE RunMainBlock(_, _, _, _, _)
RunMainBlock(c, block, answer, log, out) ==
    IF block = <<>> THEN [ret |-> None, calls |-> log, out |-> out]
    ELSE LET stmt == Head(block) IN
         IF stmt.method \notin Methods(c)
         THEN [ret |-> Unhandled("AttributeError"), calls |-> log, out |-> out]
         ELSE LET o == CallMethod(c, stmt.method, answer)
                  line == IF stmt.always \/ o.ret.kind # "None"
                          THEN <<[text |-> stmt.label, value |-> o.ret]>>
                          ELSE <<>>
              IN  RunMainBlock(c, Tail(block), answer, log \o o.calls,
                               out \o o.out \o line)

\* python <module>.py
RunMain ==
    \E answer \in Probes :
        LET run == RunMainBlock(component, MainBlock(component), answer, <<>>, <<>>)
        IN  /\ probe' = (IF component = "RDS" /\ Answering THEN answer ELSE <<>>)
            /\ lastOp' = "main"
            /\ result' = run.ret
            /\ calls' = run.calls
            /\ printed' = run.out
            /\ twice' = FALSE
            /\ UNCHANGED <<component, cloud, failure, self>>

Next ==
    \/ AddReservation
    \/ AddResource
    \/ AddTag
    \/ SetTag
    \/ SetFailure
    \/ EC2GetCount
    \/ EC2GetAggregatedTags
    \/ EC2GetStatus
    \/ RDSGetCount
    \/ RDSGetAggregatedTags
    \/ RDSGetStatus
    \/ SGGetCount
    \/ SGGetAggregatedTags
    \/ SGGetStatus
    \/ VMGetCount
    \/ VMGetAggregatedTags
    \/ VMGetStatus
    \/ SQLGetCount
    \/ SQLGetAggregatedTags
    \/ SQLGetStatus
    \/ NSGGetCount
    \/ NSGGetAggregatedTags
    \/ NSGGetStatus
    \/ RunMain

Spec == Init /\ [][Next]_vars

\* ==================================================================== claims
Operations == {"count", "tags", "status"}

\* Whether a tag entry of some resource lacks Key or Value.
MalformedTagIn(rs) ==
    \E i \in 1..Len(rs) :
        /\ "Tags" \in DOMAIN rs[i]
        /\ \E j \in 1..Len(rs[i].Tags) : rs[i].Tags[j] \in MalformedTags

\* Whether an invocation of op on the counter c meets a provider failure: a
\* call that raises, or a response that lacks what op reads from it.
HitsFailure(c, op) ==
    \/ failure = "call"
    \/ failure = "nofield" /\ c \in AwsComponents
    \/ failure = "noitem" /\ c = "EC2" /\ op \in {"count", "tags"}
    \/ failure = "noitem" /\ c = "RDS" /\ op = "tags"
    \/ failure = "pager" /\ c \in AzureComponents /\ op \in {"count", "tags"}
    \/ failure = "pager" /\ c \in AzureComponents /\ op = "status" /\ Resources = <<>>
    \/ op = "tags" /\ c \in AwsComponents /\ MalformedTagIn(Resources)
    \/ op = "tags" /\ c = "RDS"
          /\ \E i \in 1..Len(Resources) : "Fault" \in DOMAIN Resources[i]

\* The tags of a resource as <<key, value>> pairs, in the order it lists them.
PairsOf(r) ==
    IF "Tags" \in DOMAIN r
    THEN [j \in 1..Len(r.Tags) |-> <<r.Tags[j].Key, r.Tags[j].Value>>]
    ELSE IF "tags" \in DOMAIN r THEN r.tags ELSE <<>>

\* All tags of the resources rs, resource after resource.
RECURSIVE PairsOfAll(_)
PairsOfAll(rs) ==
    IF rs = <<>> THEN <<>> ELSE PairsOf(Head(rs)) \o PairsOfAll(Tail(rs))

\* The values tagged key among pairs, in order.
ValuesTagged(key, pairs) ==
    LET Named(p) == p[1] = key
        named == SelectSeq(pairs, Named)
    IN  [j \in 1..Len(named) |-> named[j][2]]

\* C1: a successful aggregated-tags invocation returns a mapping whose keys are
\* exactly the tag keys some returned resource carries, and whose list for a key
\* is the values tagged with it, in the order the resources were returned (EC2:
\* reservation after reservation, instance after instance), equal values kept.
C1_AggregatedTagsInOrder ==
    (lastOp = "tags" /\ ~HitsFailure(component, "tags")) =>
        LET pairs == PairsOfAll(Resources) IN
        /\ result.kind = "dict"
        /\ DOMAIN result.value = {pairs[j][1] : j \in 1..Len(pairs)}
        /\ \A key \in DOMAIN result.value :
              result.value[key] = ValuesTagged(key, pairs)

\* Two EC2 reservations of one instance each, both tagged Env=prod: the value
\* is kept twice.
C1_Witness ==
    /\ component = "EC2" /\ lastOp = "tags" /\ failure = "none"
    /\ Len(cloud) = 2 /\ Len(cloud[1]) = 1 /\ Len(cloud[2]) = 1
    /\ result.kind = "dict"
    /\ DOMAIN result.value = {"Env"}
    /\ result.value["Env"] = <<"prod", "prod">>

\* C2: a successful count invocation returns the number of resources returned,
\* tagged or not; for EC2 the instances over all reservations, not the
\* reservations.
C2_CountIsNumberOfResources ==
    (lastOp = "count" /\ ~HitsFailure(component, "count")) =>
        result = IntVal(Len(Resources))

\* An EC2 reservation without instances followed by one with two.
C2_Witness ==
    /\ component = "EC2" /\ lastOp = "count" /\ failure = "none"
    /\ Len(cloud) = 2 /\ Len(cloud[1]) = 0 /\ Len(cloud[2]) = 2
    /\ result = IntVal(2)

\* C3: an invocation that meets a raising provider call or a malformed
\* response returns None: no exception leaves it and no partial mapping or
\* count is returned, also when the failure comes after earlier progress.
C3_FailureReturnsNone ==
    (lastOp \in Operations /\ HitsFailure(component, lastOp)) => result = None

\* RDS: the first instance is tagged and its lookup succeeds, the second
\* lookup raises.
C3_Witness ==
    /\ component = "RDS" /\ lastOp = "tags"
    /\ Len(Resources) = 2
    /\ "Tags" \in DOMAIN Resources[1] /\ Len(Resources[1].Tags) > 0
    /\ Len(calls) = 3 /\ ~calls[2].raised /\ calls[3].raised
    /\ result = None

\* The fixed string each status operation returns.
Operational(c) ==
    StrVal(CASE c = "EC2" -> "EC2 Service is operational."
             [] c = "RDS" -> "RDS Service is operational."
             [] c = "SG"  -> "Security Groups Service is operational."
             [] c = "VM"  -> "Azure VM Service is operational."
             [] c = "SQL" -> "Azure SQL Database Service is operational."
             [] c = "NSG" -> "Azure NSG Service is operational.")

\* C4 as stated: when the provider does not fail, the status operation returns
\* the operational string iff the collection the count operation enumerates is
\* non-empty, and None iff it is empty.
C4_StatusIffCountedCollection ==
    (lastOp = "status" /\ ~HitsFailure(component, "status")) =>
        /\ result = Operational(component) <=> Resources # <<>>
        /\ result = None <=> Resources = <<>>

\* The collection the status operation looks at: the resources the count
\* operation enumerates, except for EC2 (account attributes) and RDS
\* (orderable instance options), which ask the service another question.
StatusCollection(c) == IF c \in {"EC2", "RDS"} THEN probe ELSE Resources

\* C4 as amended: when the provider does not fail, the status operation
\* returns the operational string iff the collection its own call lists is
\* non-empty, and None iff it is empty; that collection is the one the count
\* operation enumerates for SG, VM, SQL and NSG, and is the account attributes
\* (EC2) or the orderable instance options (RDS) otherwise.
C4_StatusIffOwnCollection ==
    (lastOp = "status" /\ ~HitsFailure(component, "status")) =>
        /\ result = Operational(component) <=> StatusCollection(component) # <<>>
        /\ result = None <=> StatusCollection(component) = <<>>

\* EC2 reports operational while it counts no instance.
C4_Witness ==
    /\ component = "EC2" /\ lastOp = "status" /\ failure = "none"
    /\ Resources = <<>> /\ probe # <<>>
    /\ result = Operational("EC2")

\* C5: count and aggregated tags return None exactly when the invocation met a
\* provider failure; over an empty collection they return 0 and the empty
\* mapping, over untagged resources the empty mapping, and a count that is
\* present is a non-negative integer.
C5_NoneOnlyOnFailure ==
    (lastOp \in {"count", "tags"}) =>
        /\ result = None <=> HitsFailure(component, lastOp)
        /\ (lastOp = "count" /\ result # None) =>
              (result.kind = "int" /\ result.value \in Nat)
        /\ (~HitsFailure(component, lastOp) /\ Resources = <<>>) =>
              result = (IF lastOp = "count" THEN IntVal(0) ELSE DictVal(<<>>))
        /\ (lastOp = "tags" /\ ~HitsFailure(component, "tags")
                /\ TagTotal(Resources) = 0) =>
              result = DictVal(<<>>)

\* A successful count over no security group.
C5_Witness ==
    /\ component = "SG" /\ lastOp = "count" /\ failure = "none"
    /\ Resources = <<>>
    /\ result = IntVal(0)

\* The resources among rs that carry a tag named key.
Carrying(key, rs) ==
    {i \in 1..Len(rs) : \E j \in 1..Len(PairsOf(rs[i])) : PairsOf(rs[i])[j][1] = key}

\* The tag entries among rs that are named key.
EntriesNamed(key, rs) ==
    {<<i, j>> \in (1..Len(rs)) \X (1..MaxTags) :
        j <= Len(PairsOf(rs[i])) /\ PairsOf(rs[i])[j][1] = key}

\* C6 as stated: in a returned mapping the list of key K is as long as the
\* number of returned resources that carry a tag K, and no list is empty.
C6_OneValuePerResource ==
    (lastOp = "tags" /\ result.kind = "dict") =>
        \A key \in DOMAIN result.value :
            /\ Len(result.value[key]) = Cardinality(Carrying(key, Resources))
            /\ result.value[key] # <<>>

\* C6 as amended: the list of key K is as long as the number of tag entries
\* named K on the returned resources, and no list is empty; that is one value
\* per resource carrying K when no resource lists K twice, as no Azure
\* resource can.
C6_OneValuePerTagEntry ==
    (lastOp = "tags" /\ result.kind = "dict") =>
        \A key \in DOMAIN result.value :
            /\ Len(result.value[key]) = Cardinality(EntriesNamed(key, Resources))
            /\ result.value[key] # <<>>
            /\ (\A i \in 1..Len(Resources) :
                    Cardinality(EntriesNamed(key, <<Resources[i]>>)) <= 1)
                 => Len(result.value[key]) = Cardinality(Carrying(key, Resources))

\* One security group that lists Env twice: two values from one resource.
C6_Witness ==
    /\ component = "SG" /\ lastOp = "tags" /\ result.kind = "dict"
    /\ Len(Resources) = 1
    /\ "Env" \in DOMAIN result.value
    /\ Len(result.value["Env"]) = 2

\* The method names a module's usage example and __main__ block invoke.
Invoked(c) ==
    UsageExample(c) \cup {MainBlock(c)[i].method : i \in 1..Len(MainBlock(c))}

\* C7: every method name the usage example or the __main__ block of a module
\* invokes is defined by the module's counter class, so a run of the entry
\* point ends without an unhandled exception, and it prints the status only
\* when the status is not None.
C7_EntryPointRuns ==
    (lastOp = "main") =>
        /\ Invoked(component) \subseteq Methods(component)
        /\ result = None
        /\ \A i \in 1..Len(printed) :
              printed[i] # [text |-> "status", value |-> None]

\* The tag lookup RDS issues for the i-th instance returned.
Lookup(i, raised) == Call("list_tags_for_resource", <<Resources[i].id>>, raised)

\* C8: RDS aggregated tags issues one describe call first and then, when
\* nothing fails, one tag lookup per instance returned, in the order returned,
\* each with that instance's ARN; no lookup comes before the describe call has
\* returned, and the values of an instance precede those of the next.
C8_DescribeThenLookupPerInstance ==
    (component = "RDS" /\ lastOp = "tags") =>
        /\ Len(calls) >= 1
        /\ calls[1].api = "describe_db_instances"
        /\ \A i \in 2..Len(calls) : calls[i].api = "list_tags_for_resource"
        /\ (calls[1].raised \/ failure = "nofield") => Len(calls) = 1
        /\ ~HitsFailure("RDS", "tags") =>
              /\ Len(calls) = 1 + Len(Resources)
              /\ \A i \in 1..Len(Resources) : calls[i + 1] = Lookup(i, FALSE)
              /\ \A key \in DOMAIN result.value :
                    result.value[key] = ValuesTagged(key, PairsOfAll(Resources))

\* Two tagged instances, three calls, Env in instance order.
C8_Witness ==
    /\ component = "RDS" /\ lastOp = "tags" /\ failure = "none"
    /\ Len(Resources) = 2 /\ Len(calls) = 3
    /\ result.kind = "dict" /\ "Env" \in DOMAIN result.value
    /\ result.value["Env"] = <<"prod", "dev">>

\* C9: no operation retries.  Count and status issue one provider call;
\* aggregated tags issues one list call, and RDS after it at most one lookup
\* per instance, in order; a provider call that raised is the last call of
\* its invocation, which returns None.
C9_NoRetry ==
    (lastOp \in Operations) =>
        /\ Len(calls) >= 1
        /\ (lastOp \in {"count", "status"} \/ component # "RDS") => Len(calls) = 1
        /\ calls[1].api # "list_tags_for_resource"
        /\ Len(calls) <= 1 + Len(Resources)
        /\ \A i \in 2..Len(calls) : calls[i] = Lookup(i - 1, calls[i].raised)
        /\ \A i \in 1..Len(calls) :
              calls[i].raised => (i = Len(calls) /\ result = None)

\* RDS: the lookup of the first of two instances raises, the second instance
\* is never looked up.
C9_Witness ==
    /\ component = "RDS" /\ lastOp = "tags"
    /\ Len(Resources) = 2
    /\ Len(calls) = 2 /\ calls[2].raised
    /\ result = None

\* The operations a module's __main__ block gets to invoke.
MainOperations(c) ==
    CASE c \in {"RDS", "SG"} -> Operations
      [] c \in {"VM", "NSG"} -> {"status"}
      [] OTHER -> {}

\* The diagnostics among the lines printed.
Diagnostics(lines) == {i \in 1..Len(lines) : lines[i] = Diagnostic}

\* C10: an invocation that meets a provider failure prints exactly one
\* diagnostic and returns None, an invocation that does not prints none (a
\* status that is None for an empty listing included); over the invocations an
\* entry point makes one after the other, the diagnostics printed are as many
\* as the invocations that met a failure.
C10_OneDiagnosticPerFailure ==
    /\ (lastOp \in Operations) =>
          IF HitsFailure(component, lastOp)
          THEN printed = <<Diagnostic>> /\ result = None
          ELSE printed = <<>>
    /\ (lastOp = "main") =>
          Cardinality(Diagnostics(printed)) =
              Cardinality({op \in MainOperations(component) :
                              HitsFailure(component, op)})

\* The security-group entry point over a malformed tag: the count and the
\* status are printed, and one diagnostic for the aggregated tags.
C10_Witness ==
    /\ component = "SG" /\ lastOp = "main" /\ failure = "none"
    /\ MalformedTagIn(Resources)
    /\ Len(printed) = 3
    /\ Cardinality(Diagnostics(printed)) = 1

\* What the provider's present answer to op amounts to: None when the
\* invocation meets a failure, else the number of resources, the mapping of
\* their tags, or the status of the collection the status call lists.
FromProvider(c, op) ==
    IF HitsFailure(c, op) THEN None
    ELSE CASE op = "count" -> IntVal(Len(Resources))
           [] op = "tags" ->
                LET pairs == PairsOfAll(Resources) IN
                DictVal([key \in {pairs[j][1] : j \in 1..Len(pairs)} |->
                            ValuesTagged(key, pairs)])
           [] op = "status" ->
                IF StatusCollection(c) # <<>> THEN Operational(c) ELSE None

\* The operation whose result a __main__ block prints under the label text.
OpPrinted(text) == IF text \in {"tags", "status"} THEN text ELSE "count"

\* C11: a counter carries no state from one invocation to the next.  Its
\* attributes stay as the constructor set them, and whatever was invoked
\* before, successfully or not, the result of an invocation is what the
\* provider's answer to that invocation amounts to: aggregated tags invoked
\* twice against an unchanged provider returns equal mappings, nothing being
\* accumulated, and every result an entry point prints, after the invocations
\* and the failures that came before it, is the one a single invocation gives.
C11_NoStateCarried ==
    /\ self = Constructed(component)
    /\ (lastOp \in Operations) => result = FromProvider(component, lastOp)
    /\ (lastOp = "main") =>
          \A i \in 1..Len(printed) :
              "value" \in DOMAIN printed[i] =>
                  printed[i].value =
                      FromProvider(component, OpPrinted(printed[i].text))

\* Aggregated tags invoked a second time over two SQL databases tagged
\* Env=prod and Env=dev: each value is there once.
C11_Witness ==
    /\ component = "SQL" /\ lastOp = "tags" /\ twice /\ failure = "none"
    /\ Len(Resources) = 2
    /\ self = Constructed("SQL")
    /\ result.kind = "dict"
    /\ DOMAIN result.value = {"Env"}
    /\ result.value["Env"] = <<"prod", "dev">>

====
